---- MODULE Spec2Model ----
(***************************************************************************)
(* PyCav: the time integrator (time_advancer.py) and the ensemble state    *)
(* (bubble_state.py).                                                      *)
(*                                                                         *)
(* Numbers.  A float of the state table, of dt, of ts_error is modelled as *)
(* an extended rational [n, d]: a normalised fraction n/d (d > 0), or one  *)
(* of the IEEE specials +inf = 1/0, -inf = -1/0, NaN = 0/0.  Sums,         *)
(* products and quotients are exact on finite values and follow IEEE-754   *)
(* on the specials (x/0, 0/0, inf-inf, comparisons with NaN).  Square      *)
(* roots are rounded down to SqrtBits significant bits.  The clock of the  *)
(* fixed-step runs of SpecClock is carried in binary64 itself (two limbs), *)
(* because the loop's exit test depends on its rounding.                   *)
(***************************************************************************)
EXTENDS Integers, Sequences, FiniteSets, TLC

VARIABLES
    \* time_advancer
    pc,             \* "Idle" (constructed), "Running" (inside run's loop), "Completed"
    method,         \* self.method
    T,              \* self.T
    dt,             \* self.dt
    min_time_step,  \* self.min_time_step
    error_tol,      \* self.error_tol
    time,           \* self.time
    i_step,         \* run's local i_step
    times,          \* self.times
    save,           \* self.save
    ts_error,       \* self.ts_error
    wave,           \* self.wave (the forcing, an external collaborator)
    \* bubble_state held by the integrator (self.state)
    vals,           \* self.state.vals, the state table
    rhs,            \* self.state.rhs, the shared derivative buffer
    model,          \* the per-node model's parameters (external collaborator)
    \* bubble_state.__init__
    cpc,            \* position inside __init__: "new", "parsed", "gh" (inside
                    \* init_GH's loops), "nodes", "built", "failed"; "held" when the
                    \* construction is not followed
    pop_config,     \* the population configuration passed in
    NR0, shape, binning, muR0,
    filter,         \* self.filter
    R0, w,          \* abscissas and weights
    bubble,         \* the per-node models
    consulted,      \* which of get_bounds / init_pdf have run
    error,          \* the exception __init__ raised, or "none"
    gh              \* init_GH's locals

runVars == <<pc, method, T, dt, min_time_step, error_tol, time, i_step, times,
             save, ts_error, wave, model>>
tableVars == <<vals, rhs>>
popVars == <<cpc, pop_config, NR0, shape, binning, muR0, filter, R0, w, bubble,
             consulted, error, gh>>
vars == <<runVars, tableVars, popVars>>

----------------------------------------------------------------------------
(* Bounds of the model *)

\* run's loop is cut after this many iterations (the code has no cap)
MaxSteps == 20
\* significant bits kept by Sqrt and by the products of the step-size controller
SqrtBits == 5

----------------------------------------------------------------------------
(* Evaluation order: Bind(e, F) is F applied to the value of e, computed once *)

Bind(e, F(_)) == CHOOSE r \in {F(v) : v \in {e}} : TRUE
Bind2(a, b, F(_, _)) == CHOOSE r \in {F(u, v) : u \in {a}, v \in {b}} : TRUE

----------------------------------------------------------------------------
(* Extended rationals *)

Abs(x) == IF x < 0 THEN -x ELSE x

\* Euclid's algorithm, three divisions to a level
GCDf[a \in Nat, b \in Nat] ==
    IF b = 0 THEN a
    ELSE IF a % b = 0 THEN b
    ELSE IF b % (a % b) = 0 THEN a % b
    ELSE GCDf[b % (a % b), (a % b) % (b % (a % b))]

GCD(a, b) == GCDf[a, b]

Pow2(k) == 2 ^ k

\* the number of bits of x, 0 <= x < 2^31
BitLen(x) ==
    Bind(x, LAMBDA v :
        CHOOSE k \in 0..31 :
            IF k = 0 THEN v = 0 ELSE Pow2(k - 1) <= v /\ (k = 31 \/ v < Pow2(k)))

\* floor(log2(n/d)), n > 0 and d > 0
Exp2(n, d) ==
    LET V(x, y) ==
            IF x >= y THEN BitLen(x \div y) - 1
            ELSE Bind(BitLen(y \div x), LAMBDA B :
                     IF y % x = 0 /\ y \div x = Pow2(B - 1) THEN -(B - 1) ELSE -B)
    IN  Bind2(n, d, V)

\* the fraction n/d, d # 0, in lowest terms with a positive denominator
Rat(n, d) ==
    LET V(x, y) ==
            Bind(GCD(Abs(x), Abs(y)), LAMBDA g :
                IF y < 0 THEN [n |-> (-x) \div g, d |-> (-y) \div g]
                ELSE [n |-> x \div g, d |-> y \div g])
    IN  Bind2(n, d, V)

R(k) == [n |-> k, d |-> 1]
Zero == R(0)
NaN == [n |-> 0, d |-> 0]
PInf == [n |-> 1, d |-> 0]
NInf == [n |-> -1, d |-> 0]
\* an attribute that does not exist yet (self.time, self.ts_error before run)
Unset == [unset |-> TRUE]

IsNaN(x) == x.d = 0 /\ x.n = 0
IsFinite(x) == x.d # 0
Sign(x) == IF x.n > 0 THEN 1 ELSE IF x.n < 0 THEN -1 ELSE 0

FNeg(a) == Bind(a, LAMBDA x : [n |-> -x.n, d |-> x.d])

FAdd(a, b) ==
    LET V(x, y) ==
            IF IsNaN(x) \/ IsNaN(y) THEN NaN
            ELSE IF x.d = 0 /\ y.d = 0 THEN (IF x.n = y.n THEN x ELSE NaN)
            ELSE IF x.d = 0 THEN x
            ELSE IF y.d = 0 THEN y
            ELSE Bind((x.d \div GCD(x.d, y.d)) * y.d, LAMBDA l :
                     Rat(x.n * (l \div x.d) + y.n * (l \div y.d), l))
    IN  Bind2(a, b, V)

FSub(a, b) == FAdd(a, FNeg(b))

FMul(a, b) ==
    LET V(x, y) ==
            IF IsNaN(x) \/ IsNaN(y) THEN NaN
            ELSE IF x.d = 0 \/ y.d = 0
                 THEN (IF Sign(x) * Sign(y) = 0 THEN NaN
                       ELSE [n |-> Sign(x) * Sign(y), d |-> 0])
            ELSE Rat(x.n * y.n, x.d * y.d)
    IN  Bind2(a, b, V)

\* numpy's float64 division: x/0 is +-inf, 0/0 and inf/inf are NaN (a warning, no
\* exception)
FDiv(a, b) ==
    LET V(x, y) ==
            IF IsNaN(x) \/ IsNaN(y) THEN NaN
            ELSE IF x.d = 0 /\ y.d = 0 THEN NaN
            ELSE IF x.d = 0
                 THEN [n |-> (IF Sign(y) < 0 THEN -x.n ELSE x.n), d |-> 0]
            ELSE IF y.d = 0 THEN Zero
            ELSE IF y.n = 0
                 THEN (IF x.n = 0 THEN NaN ELSE [n |-> Sign(x), d |-> 0])
            ELSE Rat(x.n * y.d, x.d * y.n)
    IN  Bind2(a, b, V)

\* a < b; every comparison with NaN is false
FLt(a, b) ==
    LET V(x, y) ==
            IF IsNaN(x) \/ IsNaN(y) THEN FALSE
            ELSE IF x.d = 0 /\ y.d = 0 THEN x.n < y.n
            ELSE IF x.d = 0 THEN x.n < 0
            ELSE IF y.d = 0 THEN y.n > 0
            ELSE IF x.n \div x.d # y.n \div y.d THEN x.n \div x.d < y.n \div y.d
            ELSE (x.n % x.d) * y.d < (y.n % y.d) * x.d
    IN  Bind2(a, b, V)

FLe(a, b) ==
    LET V(x, y) == ~IsNaN(x) /\ ~IsNaN(y) /\ (x = y \/ FLt(x, y))
    IN  Bind2(a, b, V)

\* Python's max(a, b): b if b > a, else a (so a NaN first argument is returned)
PyMax(a, b) ==
    LET V(x, y) == IF FLt(x, y) THEN y ELSE x
    IN  Bind2(a, b, V)

\* Python's min(a, b): b if b < a, else a
PyMin(a, b) ==
    LET V(x, y) == IF FLt(y, x) THEN y ELSE x
    IN  Bind2(a, b, V)

ISqrt(x) ==
    Bind(x, LAMBDA v :
        CHOOSE k \in 0..Pow2(SqrtBits) : k * k <= v /\ v < (k + 1) * (k + 1))

\* k / 2^j
Scaled(k, j) == IF j >= 0 THEN Rat(k, Pow2(j)) ELSE R(k * Pow2(-j))

\* np.sqrt, rounded down to SqrtBits significant bits; sqrt of a negative is NaN.
\* a * 4^j lies in [4^(SqrtBits-1), 4^SqrtBits)
Sqrt(x) ==
    LET V(a) ==
            IF IsNaN(a) \/ a.n < 0 THEN NaN
            ELSE IF a.d = 0 THEN PInf
            ELSE IF a.n = 0 THEN Zero
            ELSE Bind((SqrtBits - 1) - (Exp2(a.n, a.d) \div 2), LAMBDA j :
                     Bind(ISqrt(IF j >= 0 THEN (a.n * Pow2(2 * j)) \div a.d
                                ELSE a.n \div (a.d * Pow2(-2 * j))), LAMBDA k :
                         Scaled(k, j)))
    IN  Bind(x, V)

\* a float product of the step-size controller, rounded to the nearest value with
\* SqrtBits significant bits.  |a| * 2^j lies in [2^(SqrtBits-1), 2^SqrtBits)
RoundSig(x) ==
    LET V(a) ==
            IF a.d = 0 \/ a.n = 0 THEN a
            ELSE Bind((SqrtBits - 1) - Exp2(Abs(a.n), a.d), LAMBDA j :
                     Bind(IF j >= 0
                          THEN (2 * Abs(a.n) * Pow2(j) + a.d) \div (2 * a.d)
                          ELSE (2 * Abs(a.n) + a.d * Pow2(-j)) \div (2 * a.d * Pow2(-j)),
                          LAMBDA k :
                         IF a.n < 0 THEN FNeg(Scaled(k, j)) ELSE Scaled(k, j)))
    IN  Bind(x, V)

\* long division: the next k bits of rem/d after the binary point, appended to
\* acc, as <<bits, remainder>> (rem < d < 2^29; as many bits to a level as fit)
FracBits[rem \in Nat, d \in Nat, k \in Nat, acc \in Nat] ==
    IF k = 0 THEN <<acc, rem>>
    ELSE LET c == IF k < 30 - BitLen(d) THEN k ELSE 30 - BitLen(d)
         IN  FracBits[(rem * Pow2(c)) % d, d, k - c,
                      acc * Pow2(c) + (rem * Pow2(c)) \div d]

\* np.array(..., dtype=np.float32) on one entry: the nearest value with 24
\* significant bits, ties to even (magnitudes below 2^-7 keep 30 fractional bits,
\* magnitudes of 2^23 and more are kept)
ToFloat32(x) ==
    LET V(a) ==
            IF a.d = 0 \/ a.n = 0 THEN a
            ELSE Bind(Exp2(Abs(a.n), a.d), LAMBDA e :
                   IF e >= 23 THEN a
                   ELSE Bind(IF e < -7 THEN 30 ELSE 23 - e, LAMBDA shift :
                     Bind(FracBits[Abs(a.n) % a.d, a.d, shift, Abs(a.n) \div a.d],
                          LAMBDA q :
                       Bind(Rat(IF 2 * q[2] > a.d \/ (2 * q[2] = a.d /\ q[1] % 2 = 1)
                                THEN q[1] + 1 ELSE q[1], Pow2(shift)), LAMBDA m :
                         IF a.n < 0 THEN FNeg(m) ELSE m))))
    IN  Bind(x, V)

----------------------------------------------------------------------------
(* binary64 clock: [hi, lo] is the double (hi * 2^29 + lo) * 2^-57, for the   *)
(* doubles in [0, 8) that are multiples of 2^-57 (0 and every double >= 1/32) *)

DblBase == Pow2(29)
DZero == [hi |-> 0, lo |-> 0]
IsDbl(x) == "hi" \in DOMAIN x

\* the exact value s = [hi, lo] plus rem/den of a unit (rem < den), rounded to 53
\* significant bits, ties to even
DRound(s, rem, den) ==
    LET V(v, len) ==
            Bind(IF len > 53 THEN Pow2(len - 53) ELSE 1, LAMBDA q :
                Bind(v.lo % q, LAMBDA r :
                    Bind(2 * (r * den + rem) > q * den
                         \/ (2 * (r * den + rem) = q * den /\ (v.lo \div q) % 2 = 1),
                         LAMBDA up :
                        Bind((v.lo - r) + (IF up THEN q ELSE 0), LAMBDA lo2 :
                            [hi |-> v.hi + lo2 \div DblBase, lo |-> lo2 % DblBase]))))
    IN  Bind(s, LAMBDA v :
            V(v, IF v.hi > 0 THEN 29 + BitLen(v.hi) ELSE BitLen(v.lo)))

\* Python's conversion of the decimal literal n/d (1/32 <= n/d < 8) to a float
ParseDbl(n, d) ==
    Bind(FracBits[n % d, d, 28, n \div d], LAMBDA h :
        Bind(FracBits[h[2], d, 29, 0], LAMBDA l :
            DRound([hi |-> h[1], lo |-> l[1]], l[2], d)))

\* a + b in binary64, a and b >= 0
DAdd(a, b) ==
    LET V(x, y) ==
            Bind(x.lo + y.lo, LAMBDA lo :
                DRound([hi |-> x.hi + y.hi + lo \div DblBase, lo |-> lo % DblBase],
                       0, 1))
    IN  Bind2(a, b, V)

\* a / 2.0 (exact for the doubles >= 1/16 of this range)
DHalf(a) ==
    Bind(a, LAMBDA x :
        [hi |-> x.hi \div 2, lo |-> (x.hi % 2) * (DblBase \div 2) + x.lo \div 2])

DGe(a, b) ==
    LET V(x, y) == x.hi > y.hi \/ (x.hi = y.hi /\ x.lo >= y.lo)
    IN  Bind2(a, b, V)

\* the double as an exact rational (evaluable when lo = 0)
DblToRat(a) ==
    Bind(a, LAMBDA x :
        FAdd(Rat(x.hi, Pow2(28)), FMul(Rat(x.lo, Pow2(29)), Rat(1, Pow2(28)))))

\* the clock's arithmetic, on either representation
NumAdd(a, b) == IF IsDbl(a) THEN DAdd(a, b) ELSE FAdd(a, b)
NumHalf(a) == IF IsDbl(a) THEN DHalf(a) ELSE FDiv(a, R(2))
NumGe(a, b) == IF IsDbl(a) THEN DGe(a, b) ELSE FLe(b, a)
\* dt * x for a table entry x
NumMul(a, x) ==
    IF IsDbl(a) THEN (IF x = Zero THEN Zero ELSE FMul(DblToRat(a), x))
    ELSE FMul(a, x)

----------------------------------------------------------------------------
(* State tables: a sequence of NR0 rows of num_RV_dim entries *)

num_RV_dim == 2

TAdd(A, B) ==
    LET V(a, b) ==
            [i \in 1..Len(a) |-> [j \in 1..Len(a[i]) |-> FAdd(a[i][j], b[i][j])]]
    IN  Bind2(A, B, V)

TSub(A, B) ==
    LET V(a, b) ==
            [i \in 1..Len(a) |-> [j \in 1..Len(a[i]) |-> FSub(a[i][j], b[i][j])]]
    IN  Bind2(A, B, V)

\* c * A for a coefficient c of the scheme
TScale(c, A) ==
    LET V(k, a) == [i \in 1..Len(a) |-> [j \in 1..Len(a[i]) |-> FMul(k, a[i][j])]]
    IN  Bind2(c, A, V)

\* self.dt * A
TStep(h, A) ==
    LET V(k, a) == [i \in 1..Len(a) |-> [j \in 1..Len(a[i]) |-> NumMul(k, a[i][j])]]
    IN  Bind2(h, A, V)

TZeros(n) == [i \in 1..n |-> [j \in 1..num_RV_dim |-> Zero]]

\* the entries of a table, row after row
RECURSIVE Flat(_, _)
Flat(A, i) == IF i = 0 THEN <<>> ELSE Flat(A, i - 1) \o A[i]

RECURSIVE LcmDen(_, _)
LcmDen(xs, k) ==
    IF k = 0 THEN 1
    ELSE Bind(LcmDen(xs, k - 1), LAMBDA l : (l \div GCD(l, xs[k].d)) * xs[k].d)

RECURSIVE MaxAbs(_, _)
MaxAbs(ns, k) ==
    IF k = 0 THEN 0
    ELSE Bind(MaxAbs(ns, k - 1), LAMBDA m : IF Abs(ns[k]) > m THEN Abs(ns[k]) ELSE m)

RECURSIVE SumSq(_, _, _)
SumSq(ns, q, k) ==
    IF k = 0 THEN 0
    ELSE SumSq(ns, q, k - 1) + (Abs(ns[k]) \div q) * (Abs(ns[k]) \div q)

\* np.linalg.norm of a table: the Euclidean norm of the flattened table.  Finite
\* entries are put over their common denominator and enter the sum of squares
\* with their 14 leading bits (of the largest); a nonzero table has a nonzero norm
Norm(A) ==
    LET V(xs) ==
            IF \E k \in 1..Len(xs) : IsNaN(xs[k]) THEN NaN
            ELSE IF \E k \in 1..Len(xs) : xs[k].d = 0 THEN PInf
            ELSE Bind(LcmDen(xs, Len(xs)), LAMBDA D :
                   Bind([k \in 1..Len(xs) |-> xs[k].n * (D \div xs[k].d)], LAMBDA ns :
                     Bind(BitLen(MaxAbs(ns, Len(ns))), LAMBDA len :
                       Bind(IF len > 14 THEN Pow2(len - 14) ELSE 1, LAMBDA q :
                         FMul(Sqrt(R(SumSq(ns, q, Len(ns)))), Rat(q, D))))))
    IN  Bind(A, LAMBDA a : Bind(Flat(a, Len(a)), V))

----------------------------------------------------------------------------
(* External collaborators: the per-node model and the forcing *)

\* bubble_model.rhs(p) on the node's row x: the linear family
\* (c1 * x[2], c2 * x[1] + b * p); c1 = c2 = b = 0 is the zero derivative
BubbleRhs(m, x, p) ==
    <<FMul(R(m.c1), x[2]), FAdd(FMul(R(m.c2), x[1]), FMul(R(m.b), p))>>

\* waveforms.p(t): c0 + c1 * t (c1 = 0: time-invariant)
WaveP(t) ==
    IF wave.c1 = 0 THEN R(wave.c0) ELSE FAdd(R(wave.c0), FMul(R(wave.c1), t))

----------------------------------------------------------------------------
(* bubble_state.get_rhs and the stepping schemes.                           *)
(* get_rhs overwrites the state table with its argument and the shared      *)
(* buffer self.rhs with the derivative, and returns the buffer itself: the  *)
(* heap after the call is h = [vals, rhs], and the caller's l1, L, L2 are   *)
(* references into it, read through Deref with the heap as it is at the     *)
(* line that reads them.  With alias = FALSE get_rhs returns a fresh copy   *)
(* instead (the reference semantics the schemes are compared with).         *)

get_rhs(state, p) ==
    LET V(s, q) == [vals |-> s, rhs |-> [i \in 1..Len(s) |-> BubbleRhs(model, s[i], q)]]
    IN  Bind2(state, p, V)

\* what get_rhs returns: a reference to the buffer, or a copy of it
Ret(alias, h) == [ref |-> alias, val |-> IF alias THEN <<>> ELSE h.rhs]
\* the table x refers to, read when the heap is h
Deref(h, x) == IF x.ref THEN h.rhs ELSE x.val

\* np.linalg.norm(fine - coarse) / np.linalg.norm(fine)
err(fine, coarse) == FDiv(Norm(TSub(fine, coarse)), Norm(fine))

euler(alias) ==
    LET f0 == vals
    IN  Bind(get_rhs(f0, WaveP(time)), LAMBDA h1 :
        LET l1 == Ret(alias, h1)
        IN  Bind(TAdd(f0, TStep(dt, Deref(h1, l1))), LAMBDA new :
            [vals |-> new, rhs |-> h1.rhs, ts_error |-> ts_error,
             stages |-> <<h1.rhs>>, fine |-> new, coarse |-> new]))

rk2(alias) ==
    LET f0 == vals
    IN  Bind(get_rhs(f0, WaveP(time)), LAMBDA h1 :
        LET l1 == Ret(alias, h1)
        IN  Bind(TAdd(f0, TStep(dt, Deref(h1, l1))), LAMBDA f1 :
            Bind(get_rhs(f1, WaveP(NumAdd(time, dt))), LAMBDA h2 :
            LET L == Ret(alias, h2)
            IN  Bind(TAdd(TScale(Rat(1, 2), f0),
                          TScale(Rat(1, 2), TAdd(f1, TStep(dt, Deref(h2, L))))),
                     LAMBDA new :
                [vals |-> new, rhs |-> h2.rhs, ts_error |-> ts_error,
                 stages |-> <<h1.rhs, h2.rhs>>, fine |-> new, coarse |-> new]))))

rk3(alias) ==
    LET f0 == vals
    IN  Bind(get_rhs(f0, WaveP(time)), LAMBDA h1 :
        LET l1 == Ret(alias, h1)
        IN  Bind(TAdd(f0, TStep(dt, Deref(h1, l1))), LAMBDA f1 :
            Bind(get_rhs(f1, WaveP(NumAdd(time, dt))), LAMBDA h2 :
            LET L == Ret(alias, h2)
            IN  Bind(TAdd(TScale(Rat(3, 4), f0),
                          TScale(Rat(1, 4), TAdd(f1, TStep(dt, Deref(h2, L))))),
                     LAMBDA f2 :
                Bind(get_rhs(f2, WaveP(NumAdd(time, NumHalf(dt)))), LAMBDA h3 :
                LET L2 == Ret(alias, h3)
                IN  Bind(TAdd(TScale(Rat(1, 3), f0),
                              TScale(Rat(2, 3), TAdd(f2, TStep(dt, Deref(h3, L2))))),
                         LAMBDA new :
                    [vals |-> new, rhs |-> h3.rhs, ts_error |-> ts_error,
                     stages |-> <<h1.rhs, h2.rhs, h3.rhs>>,
                     fine |-> new, coarse |-> new]))))))

\* rk12 with the second stage's increment left out of the average (the blend
\* 0.5 * f0 + 0.5 * f1 + dt * L)
rk12_unblended(alias) ==
    LET f0 == vals
    IN  Bind(get_rhs(f0, WaveP(time)), LAMBDA h1 :
        LET l1 == Ret(alias, h1)
        IN  Bind(TAdd(f0, TStep(dt, Deref(h1, l1))), LAMBDA f1 :
            LET mome == f1
            IN  Bind(get_rhs(f1, WaveP(NumAdd(time, dt))), LAMBDA h2 :
                LET L == Ret(alias, h2)
                IN  Bind(TAdd(TAdd(TScale(Rat(1, 2), f0), TScale(Rat(1, 2), f1)),
                              TStep(dt, Deref(h2, L))),
                         LAMBDA mom :
                    [vals |-> mom, rhs |-> h2.rhs, ts_error |-> err(mom, mome),
                     stages |-> <<h1.rhs, h2.rhs>>,
                     fine |-> mom, coarse |-> mome]))))

rk12(alias) ==
    LET f0 == vals
    IN  Bind(get_rhs(f0, WaveP(time)), LAMBDA h1 :
        LET l1 == Ret(alias, h1)
        IN  Bind(TAdd(f0, TStep(dt, Deref(h1, l1))), LAMBDA f1 :
            LET mome == f1
            IN  Bind(get_rhs(f1, WaveP(NumAdd(time, dt))), LAMBDA h2 :
                LET L == Ret(alias, h2)
                IN  Bind(TAdd(TScale(Rat(1, 2), f0),
                              TScale(Rat(1, 2), TAdd(f1, TStep(dt, Deref(h2, L))))),
                         LAMBDA mom :
                    [vals |-> mom, rhs |-> h2.rhs, ts_error |-> err(mom, mome),
                     stages |-> <<h1.rhs, h2.rhs>>,
                     fine |-> mom, coarse |-> mome]))))

\* rk23 with the second-order estimate formed after the third get_rhs call, when
\* L refers to a buffer that already holds the third derivative
rk23_late_mome(alias) ==
    LET f0 == vals
    IN  Bind(get_rhs(f0, WaveP(time)), LAMBDA h1 :
        LET l1 == Ret(alias, h1)
        IN  Bind(TAdd(f0, TStep(dt, Deref(h1, l1))), LAMBDA f1 :
            Bind(get_rhs(f1, WaveP(NumAdd(time, dt))), LAMBDA h2 :
            LET L == Ret(alias, h2)
            IN  Bind(TAdd(TScale(Rat(3, 4), f0),
                          TScale(Rat(1, 4), TAdd(f1, TStep(dt, Deref(h2, L))))),
                     LAMBDA f2 :
                Bind(get_rhs(f2, WaveP(NumAdd(time, NumHalf(dt)))), LAMBDA h3 :
                LET L2 == Ret(alias, h3)
                IN  Bind(TAdd(TScale(Rat(1, 2), f0),
                              TScale(Rat(1, 2), TAdd(f1, TStep(dt, Deref(h3, L))))),
                         LAMBDA mome :
                    Bind(TAdd(TScale(Rat(1, 3), f0),
                              TScale(Rat(2, 3), TAdd(f2, TStep(dt, Deref(h3, L2))))),
                         LAMBDA mom :
                    [vals |-> mom, rhs |-> h3.rhs, ts_error |-> err(mom, mome),
                     stages |-> <<h1.rhs, h2.rhs, h3.rhs>>,
                     fine |-> mom, coarse |-> mome])))))))

rk23(alias) ==
    LET f0 == vals
    IN  Bind(get_rhs(f0, WaveP(time)), LAMBDA h1 :
        LET l1 == Ret(alias, h1)
        IN  Bind(TAdd(f0, TStep(dt, Deref(h1, l1))), LAMBDA f1 :
            Bind(get_rhs(f1, WaveP(NumAdd(time, dt))), LAMBDA h2 :
            LET L == Ret(alias, h2)
            IN  Bind(TAdd(TScale(Rat(1, 2), f0),
                          TScale(Rat(1, 2), TAdd(f1, TStep(dt, Deref(h2, L))))),
                     LAMBDA mome :
                Bind(TAdd(TScale(Rat(3, 4), f0),
                          TScale(Rat(1, 4), TAdd(f1, TStep(dt, Deref(h2, L))))),
                     LAMBDA f2 :
                Bind(get_rhs(f2, WaveP(NumAdd(time, NumHalf(dt)))), LAMBDA h3 :
                LET L2 == Ret(alias, h3)
                IN  Bind(TAdd(TScale(Rat(1, 3), f0),
                              TScale(Rat(2, 3), TAdd(f2, TStep(dt, Deref(h3, L2))))),
                         LAMBDA mom :
                    [vals |-> mom, rhs |-> h3.rhs, ts_error |-> err(mom, mome),
                     stages |-> <<h1.rhs, h2.rhs, h3.rhs>>,
                     fine |-> mom, coarse |-> mome])))))))

\* self.advance, as set_stepper bound it
advance(alias) ==
    CASE method = "Euler" -> euler(alias)
      [] method = "RK2" -> rk2(alias)
      [] method = "RK3" -> rk3(alias)
      [] method = "RK12" -> rk12(alias)
      [] method = "RK23" -> rk23(alias)

max_time_step == R(100000)

adapt_stepsize(h, e) ==
    LET error_fraction == Sqrt(FDiv(FMul(Rat(1, 2), error_tol), e))
        time_step_factor == PyMin(PyMax(error_fraction, Rat(3, 10)), R(2))
        new_time_step == RoundSig(FMul(time_step_factor, h))
    IN  PyMin(PyMax(RoundSig(FMul(Rat(9, 10), new_time_step)), min_time_step),
              max_time_step)

Adaptive == method = "RK23" \/ method = "RK12"

----------------------------------------------------------------------------
(* time_advancer.run *)

\* np.array(self.save, dtype=np.float32)
SaveArray(hist) ==
    [k \in 1..Len(hist) |->
        [i \in 1..Len(hist[k]) |->
            [j \in 1..Len(hist[k][i]) |-> ToFloat32(hist[k][i][j])]]]

\* lines 164-168: run's prologue
RunStart ==
    /\ pc = "Idle"
    /\ pc' = "Running"
    /\ time' = (IF IsDbl(dt) THEN DZero ELSE Zero)
    /\ i_step' = 0
    /\ save' = <<>>
    /\ times' = <<>>
    /\ UNCHANGED <<method, T, dt, min_time_step, error_tol, ts_error, wave, model>>
    /\ UNCHANGED <<tableVars, popVars>>

\* lines 173-202: one iteration of the while loop and, when it was the last, the
\* conversion of the history
RunStep ==
    /\ pc = "Running"
    /\ i_step < MaxSteps
    /\ \E r \in {advance(TRUE)}, t1 \in {NumAdd(time, dt)} :
       \E last \in {NumGe(t1, T)} :
          /\ times' = Append(times, time)
          /\ save' = (IF last THEN SaveArray(Append(save, vals))
                      ELSE Append(save, vals))
          /\ vals' = r.vals
          /\ rhs' = r.rhs
          /\ ts_error' = r.ts_error
          /\ i_step' = i_step + 1
          /\ time' = t1
          /\ dt' = (IF Adaptive THEN adapt_stepsize(dt, r.ts_error) ELSE dt)
          /\ pc' = (IF last THEN "Completed" ELSE "Running")
    /\ UNCHANGED <<method, T, min_time_step, error_tol, wave, model>>
    /\ UNCHANGED popVars

----------------------------------------------------------------------------
(* bubble_state.__init__ *)

Keys == {"NR0", "shape", "binning", "muR0", "Nfilt", "Tfilt"}

\* init_GH's iteration limit
mxit == 100

\* abscissas and weights.  init_mono's are numbers; those of the library rules
\* (np.logspace, leggauss, the pdf, the Hermite roots) are kept as terms that say
\* where they came from
Num(x) == [src |-> "number", k |-> 0, ok |-> TRUE, x |-> x]
Term(src, k) == [src |-> src, k |-> k, ok |-> TRUE, x |-> Zero]
\* a Gauss-Hermite node: made from root k, whose Newton iteration ended with
\* |z - z1| <= psmall (ok) or not, the weight from the pp of root p's iteration
HRoot(src, k, ok) == [src |-> src, k |-> k, ok |-> ok, x |-> Zero]

ConflictError == "Exception: choose one of Nfilt and Tfilt"

\* init_GH's locals when init_GH is not running
NoGH == [i |-> 0, its |-> 0, conv |-> FALSE, pp |-> -1, roots |-> <<>>]

\* a parse_config without the test of line 77
FilterConflictUntested == FALSE

\* line 77: both filters are configured
FilterConflict == "Nfilt" \in DOMAIN pop_config /\ "Tfilt" \in DOMAIN pop_config

\* self.a of get_bounds with the default sigR0 = 0.3:
\* 0.8 * exp(-2.8 * 0.3) = 0.3454 to four places
BoundsA(mu) == FAdd(Rat(3454, 10000), FSub(mu, R(1)))

\* np.ones(1), not scaled by self.muR0
MonoR0Ones == <<Num(R(1))>>

\* init_mono
MonoR0 == <<Num(muR0)>>
MonoW == <<Num(R(1))>>

Fail(e) == cpc' = "failed" /\ error' = e

\* __init__ lines 11-14: set_defaults and parse_config
ParseConfig ==
    /\ cpc = "new"
    /\ NR0' = (IF "NR0" \in DOMAIN pop_config THEN pop_config["NR0"] ELSE 1)
    /\ shape' = (IF "shape" \in DOMAIN pop_config THEN pop_config["shape"]
                 ELSE "lognormal")
    /\ binning' = (IF "binning" \in DOMAIN pop_config THEN pop_config["binning"]
                   ELSE "Simpson")
    /\ muR0' = (IF "muR0" \in DOMAIN pop_config THEN pop_config["muR0"] ELSE R(1))
    /\ IF FilterConflict
       THEN Fail(ConflictError) /\ UNCHANGED filter
       ELSE /\ filter' = (IF "Nfilt" \in DOMAIN pop_config
                             \/ "Tfilt" \in DOMAIN pop_config
                          THEN "True" ELSE "False")
            /\ cpc' = "parsed"
            /\ UNCHANGED error
    /\ UNCHANGED <<pop_config, R0, w, bubble, consulted, gh>>
    /\ UNCHANGED <<runVars, tableVars>>

\* lines 17-18: init_mono
InitMono ==
    /\ cpc = "parsed"
    /\ NR0 = 1
    /\ w' = MonoW
    /\ R0' = MonoR0
    /\ cpc' = "nodes"
    /\ UNCHANGED <<pop_config, NR0, shape, binning, muR0, filter, bubble, consulted,
                   error, gh>>
    /\ UNCHANGED <<runVars, tableVars>>

\* init_simp and init_GL: get_bounds, the rule's abscissas, init_pdf, the weights.
\* src names the rule's abscissas; early is what self.w holds when init_pdf runs.
\* The pdf's values come from scipy: whether all of them are below 1e-6 is an
\* input
InitRule(src, early) ==
    IF ~FLt(Zero, BoundsA(muR0))
    THEN /\ Fail("ValueError(self.a)")
         /\ consulted' = consulted \cup {"get_bounds"}
         /\ UNCHANGED <<R0, w>>
    ELSE /\ consulted' = consulted \cup {"get_bounds", "init_pdf"}
         /\ R0' = [k \in 1..NR0 |-> Term(src, k)]
         /\ \E small \in BOOLEAN :
               IF shape \notin {"lognormal", "normal"}
               THEN Fail("NotImplementedError") /\ w' = early
               ELSE IF small
               THEN Fail("Exception: all PDF points are small") /\ w' = early
               ELSE /\ w' = [k \in 1..NR0 |-> Term("weight", k)]
                    /\ cpc' = "nodes"
                    /\ UNCHANGED error

\* lines 19-21: init_simp
InitSimp ==
    /\ cpc = "parsed"
    /\ NR0 > 1
    /\ binning = "Simpson"
    /\ InitRule("logspace", w)
    /\ UNCHANGED <<pop_config, NR0, shape, binning, muR0, filter, bubble, gh>>
    /\ UNCHANGED <<runVars, tableVars>>

\* lines 22-23: init_GL
InitGL ==
    /\ cpc = "parsed"
    /\ NR0 > 1
    /\ binning = "GL"
    /\ InitRule("leggauss", [k \in 1..NR0 |-> Term("leggauss weight", k)])
    /\ UNCHANGED <<pop_config, NR0, shape, binning, muR0, filter, bubble, gh>>
    /\ UNCHANGED <<runVars, tableVars>>

\* lines 25-26, 28-29 and 31: the configurations __init__ turns down
RejectConfig ==
    /\ cpc = "parsed"
    /\ \/ NR0 < 1 /\ Fail("ValueError(self.NR0)")
       \/ /\ NR0 > 1
          /\ \/ binning = "GH" /\ shape # "lognormal"
             \/ binning \notin {"Simpson", "GL", "GH"}
          /\ Fail("NotImplementedError")
    /\ UNCHANGED <<pop_config, NR0, shape, binning, muR0, filter, R0, w, bubble,
                   consulted, gh>>
    /\ UNCHANGED <<runVars, tableVars>>

\* init_GH lines 109-131: the locals, and the first root's seed.  conv is the
\* loop test abs(z - z1) <= psmall on the current z and z1, a float comparison
\* whose outcome is an input
GHStart ==
    /\ cpc = "parsed"
    /\ NR0 > 1
    /\ binning = "GH"
    /\ shape = "lognormal"
    /\ w' = [k \in 1..NR0 |-> Num(Zero)]
    /\ \E c \in BOOLEAN :
          gh' = [i |-> 0, its |-> 1, conv |-> c, pp |-> -1, roots |-> <<>>]
    /\ cpc' = "gh"
    /\ UNCHANGED <<pop_config, NR0, shape, binning, muR0, filter, R0, bubble,
                   consulted, error>>
    /\ UNCHANGED <<runVars, tableVars>>

\* lines 133-147: one pass of the Newton loop
GHNewton ==
    /\ cpc = "gh"
    /\ ~(gh.its > mxit \/ gh.conv)
    /\ \E c \in BOOLEAN :
          gh' = [gh EXCEPT !.its = gh.its + 1, !.conv = c, !.pp = gh.i]
    /\ UNCHANGED <<cpc, pop_config, NR0, shape, binning, muR0, filter, R0, w,
                   bubble, consulted, error>>
    /\ UNCHANGED <<runVars, tableVars>>

\* the root that node k (1-based, in self.R0's final order) is made from: line
\* 150 mirrors root i into place Npt - i - 1, lines 157-159 reverse the order
RootOf(k) == IF k <= (NR0 + 1) \div 2 THEN k ELSE NR0 + 1 - k

\* lines 133-134 and 149-159: the loop is left, on convergence or on its > mxit
\* alike; the iterate is stored as the root, and the next root is seeded or, after
\* the last one, the weights and abscissas are made from the stored roots
GHBreak ==
    /\ cpc = "gh"
    /\ gh.its > mxit \/ gh.conv
    /\ IF gh.pp = -1
       THEN \* line 151 reads pp, which no pass of the loop has assigned
            /\ Fail("UnboundLocalError")
            /\ UNCHANGED <<gh, R0, w>>
       ELSE \E roots \in {Append(gh.roots, [ok |-> gh.conv, pp |-> gh.pp])} :
               IF gh.i + 1 < (NR0 + 1) \div 2
               THEN /\ \E c \in BOOLEAN :
                          gh' = [gh EXCEPT !.i = gh.i + 1, !.its = 1, !.conv = c,
                                           !.roots = roots]
                    /\ UNCHANGED <<cpc, error, R0, w>>
               ELSE /\ gh' = [gh EXCEPT !.roots = roots]
                    /\ w' = [k \in 1..NR0 |->
                                HRoot("hermite weight", roots[RootOf(k)].pp + 1,
                                      roots[RootOf(k)].ok)]
                    /\ R0' = [k \in 1..NR0 |->
                                 HRoot("hermite root", RootOf(k), roots[RootOf(k)].ok)]
                    /\ cpc' = "nodes"
                    /\ UNCHANGED error
    /\ UNCHANGED <<pop_config, NR0, shape, binning, muR0, filter, bubble, consulted>>
    /\ UNCHANGED <<runVars, tableVars>>

\* bubble_model(...).state, the model's initial state (external collaborator)
BubbleState(x) == <<R(1), Zero>>

\* lines 33-46: get_bubbles, the state table and the derivative buffer
GetBubbles ==
    /\ cpc = "nodes"
    /\ bubble' = [k \in 1..Len(R0) |-> [R0 |-> R0[k]]]
    /\ vals' = [k \in 1..NR0 |-> BubbleState(R0[k])]
    /\ rhs' = TZeros(NR0)
    /\ cpc' = "built"
    /\ UNCHANGED <<pop_config, NR0, shape, binning, muR0, filter, R0, w, consulted,
                   error, gh>>
    /\ UNCHANGED runVars

----------------------------------------------------------------------------
(* Configurations *)

Methods == {"Euler", "RK2", "RK3", "RK12", "RK23"}

\* per-node models: zero derivative, free flight, oscillator, growth, forced oscillator
Models ==
    {[c1 |-> 0, c2 |-> 0, b |-> 0], [c1 |-> 1, c2 |-> 0, b |-> 0],
     [c1 |-> 1, c2 |-> -1, b |-> 0], [c1 |-> 1, c2 |-> 1, b |-> 0],
     [c1 |-> 1, c2 |-> -1, b |-> 1]}
ZeroModel == [c1 |-> 0, c2 |-> 0, b |-> 0]

\* forcings: constant 1, ramp t
Waves == {[c0 |-> 1, c1 |-> 0], [c0 |-> 0, c1 |-> 1]}

\* initial state tables (the models' initial states)
InitTables ==
    {<< <<R(1), R(0)>> >>, << <<R(0), R(0)>> >>,
     << <<R(1), R(0)>>, <<R(2), R(1)>> >>, << <<R(0), R(0)>>, <<R(0), R(0)>> >>}

\* the integrator's bubble_state, whose construction is not followed
PopHeld ==
    /\ cpc = "held"
    /\ pop_config = <<>>
    /\ NR0 = Len(vals) /\ shape = "lognormal" /\ binning = "Simpson" /\ muR0 = R(1)
    /\ filter = "False"
    /\ R0 = <<>> /\ w = <<>> /\ bubble = <<>>
    /\ consulted = {}
    /\ error = "none"
    /\ gh = NoGH

\* time_advancer.__init__ (parse_config, set_stepper) followed by initialize_state
\* and initialize_wave, on a valid configuration
Constructed ==
    /\ pc = "Idle"
    /\ method \in Methods
    /\ min_time_step = dt
    /\ time = Unset
    /\ ts_error = Unset
    /\ i_step = 0
    /\ times = <<>>
    /\ save = <<>>
    /\ rhs = TZeros(Len(vals))

Init ==
    /\ \E c \in {<<R(1), R(1)>>, <<R(1), Rat(1, 2)>>, <<R(2), R(1)>>} :
          T = c[1] /\ dt = c[2]
    /\ method \in Methods
    /\ error_tol \in (IF Adaptive THEN {Rat(1, 100), R(1)} ELSE {Zero})
    /\ model \in Models
    /\ wave \in Waves
    /\ vals \in InitTables
    /\ Constructed
    /\ PopHeld

Next == RunStart \/ RunStep

Spec == Init /\ [][Next]_vars

\* the spec's round-trip scenario: NR0 = 5 nodes, zero derivative
ClockTable == [i \in 1..5 |-> <<R(1), R(0)>>]

\* fixed-step runs with the clock in binary64
InitClock ==
    /\ T \in {ParseDbl(1, 1), ParseDbl(3, 2)}
    /\ dt \in {ParseDbl(1, 10), ParseDbl(1, 8), ParseDbl(1, 5), ParseDbl(1, 4),
               ParseDbl(3, 10), ParseDbl(1, 2)}
    /\ method \in {"Euler", "RK2", "RK3"}
    /\ error_tol = Zero
    /\ model = ZeroModel
    /\ wave = [c0 |-> 1, c1 |-> 0]
    /\ vals = ClockTable
    /\ Constructed
    /\ PopHeld

SpecClock == InitClock /\ [][Next]_vars

\* population configurations: any subset of the keys, with these values
MaxNR0 == 4
Shapes == {"lognormal", "normal", "uniform"}
Binnings == {"Simpson", "GL", "GH", "Trapezoid"}
MuR0s == {R(1), Rat(1, 2), R(2)}

\* an integrator that is not run
NoRun ==
    /\ pc = "NoRun"
    /\ method = "Euler"
    /\ T = R(1) /\ dt = R(1) /\ min_time_step = R(1)
    /\ error_tol = Zero
    /\ time = Unset /\ ts_error = Unset
    /\ i_step = 0 /\ times = <<>> /\ save = <<>>
    /\ wave = [c0 |-> 1, c1 |-> 0]
    /\ model = ZeroModel

InitPop ==
    /\ \E K \in SUBSET Keys, n \in 0..MaxNR0, s \in Shapes, b \in Binnings,
          m \in MuR0s :
          pop_config = [k \in K |->
                           [NR0 |-> n, shape |-> s, binning |-> b, muR0 |-> m,
                            Nfilt |-> 2, Tfilt |-> 3][k]]
    /\ cpc = "new"
    /\ NR0 = 0 /\ shape = "" /\ binning = "" /\ muR0 = Zero
    /\ filter = "unset"
    /\ R0 = <<>> /\ w = <<>> /\ bubble = <<>>
    /\ vals = <<>> /\ rhs = <<>>
    /\ consulted = {}
    /\ error = "none"
    /\ gh = NoGH
    /\ NoRun

NextPop ==
    \/ ParseConfig
    \/ InitMono
    \/ InitSimp
    \/ InitGL
    \/ RejectConfig
    \/ GHStart
    \/ GHNewton
    \/ GHBreak
    \/ GetBubbles

SpecPop == InitPop /\ [][NextPop]_vars

----------------------------------------------------------------------------
(* Properties of the step-size controller and of run *)

\* C1: after every call of adapt_stepsize (every step of an RK12 or RK23 run) the
\* step satisfies min_time_step <= dt <= 1e5, whatever ts_error was
C1_StepWithinBounds ==
    (Adaptive /\ i_step > 0) => (FLe(min_time_step, dt) /\ FLe(dt, max_time_step))

\* with time or dt NaN the exit test time >= T is false now and, NaN absorbing
\* every later sum, at every later pass of the loop
ClockCanReachT == ~IsNaN(time) /\ ~IsNaN(dt)

\* C2: run terminates, and then time >= T, times and save have the same length
\* and the first recorded time is 0.  As a property of the finite runs: a run in
\* its loop can still reach T, and a completed run has these results
C2_RunTerminatesAtT ==
    /\ pc = "Running" => ClockCanReachT
    /\ pc = "Completed" =>
          (NumGe(time, T) /\ Len(times) = Len(save) /\ times[1] = Zero)

\* once the step is NaN, no later pass of the loop ends the run
NaNRunGoesOn ==
    [][(pc = "Running" /\ IsNaN(dt)) => (pc' = "Running" /\ IsNaN(dt'))]_vars

\* C8: the first recorded time is 0, the recorded times are strictly increasing
\* and each is strictly less than T, and the history holds one entry per step
\* taken (the state the last step produced is not appended)
C8_HistoryBeforeEachStep ==
    pc \in {"Running", "Completed"} =>
        /\ Len(times) = i_step /\ Len(save) = i_step
        /\ Len(times) >= 1 => times[1] = Zero
        /\ \A k \in 1..Len(times) : FLt(times[k], T)
        /\ \A k \in 1..(Len(times) - 1) : FLt(times[k], times[k + 1])

----------------------------------------------------------------------------
(* Properties of the fixed-step runs with the binary64 clock *)

\* k * a for a double a and a small integer k, exactly, as a two-limb number
DTimes(k, a) ==
    LET V(x) ==
            Bind(k * (x.lo % Pow2(15)), LAMBDA t0 :
                Bind(k * (x.lo \div Pow2(15)) + t0 \div Pow2(15), LAMBDA t1 :
                    [hi |-> k * x.hi + t1 \div Pow2(14),
                     lo |-> (t1 % Pow2(14)) * Pow2(15) + (t0 % Pow2(15))]))
    IN  Bind(a, V)

\* C3: Euler with the zero derivative leaves the state table unchanged, and with
\* T = 1, dt = 0.1 and NR0 = 5 the run records exactly 10 entries, each the
\* initial table, and ends with the initial table
C3_ZeroRhsTenEntries ==
    (method = "Euler" /\ pc \in {"Running", "Completed"}) =>
        /\ vals = ClockTable
        /\ \A k \in 1..Len(save) : save[k] = ClockTable
        /\ (pc = "Completed" /\ T = ParseDbl(1, 1) /\ min_time_step = ParseDbl(1, 10))
               => Len(save) = 10

\* C10: a run records at most ceil(T/dt0) entries: n <= ceil(T/dt0), that is
\* (n - 1) * dt0 < T
C10_AtMostCeilSteps ==
    Len(times) >= 1 => ~DGe(DTimes(Len(times) - 1, min_time_step), T)

----------------------------------------------------------------------------
(* Properties of the stepping schemes *)

\* C9: every scheme, run on the shared buffer get_rhs returns, produces the state
\* table, the buffer and the ts_error it produces when get_rhs returns a fresh
\* copy each time, and leaves the accepted estimate in the state table
C9_SharedBufferNeverReadStale ==
    pc = "Running" =>
        \A r \in {advance(TRUE)} : r = advance(FALSE) /\ r.vals = r.fine

\* a step of RK23 whose three derivatives differ has been taken and another is
\* about to be
C9_StagesDiffer ==
    /\ pc = "Running" /\ method = "RK23" /\ i_step > 0
    /\ \E r \in {advance(TRUE)} :
          /\ r.stages[1] # r.stages[2]
          /\ r.stages[2] # r.stages[3]
          /\ r.stages[1] # r.stages[3]

TimeInvariant == wave.c1 = 0
Homogeneous == model.b = 0

\* the derivative of a table under a homogeneous model
LinRhs(x) == get_rhs(x, Zero).rhs

\* what the two estimates of a step from x differ by, up to the factor dt^2 / 2
\* (RK12) or dt^3 / 6 (RK23): the second or the third iterated derivative
LeadingTerm(x) ==
    IF method = "RK12" THEN LinRhs(LinRhs(x)) ELSE LinRhs(LinRhs(LinRhs(x)))

EmbeddedCase ==
    pc = "Running" /\ Adaptive /\ TimeInvariant /\ Homogeneous /\ FLt(Zero, dt)

----------------------------------------------------------------------------
(* Properties of the construction of bubble_state *)

NothingBuilt ==
    R0 = <<>> /\ w = <<>> /\ bubble = <<>> /\ vals = <<>> /\ rhs = <<>>

\* C4: with both Nfilt and Tfilt configured the construction fails with the
\* conflicting-filter error, whatever NR0, shape and binning are, before any
\* abscissa, weight, bubble or state table exists
C4_ConflictFailsBeforeNodes ==
    ("Nfilt" \in DOMAIN pop_config /\ "Tfilt" \in DOMAIN pop_config /\ cpc # "new")
        => (cpc = "failed" /\ error = ConflictError /\ NothingBuilt
            /\ consulted = {})

\* the conflict was raised for a configuration that asks for three Gauss-Hermite
\* nodes
C4_ConflictRaised ==
    /\ cpc = "failed" /\ error = ConflictError
    /\ NR0 = 3 /\ binning = "GH" /\ shape = "lognormal"

\* C6: with NR0 = 1 (and no conflict of filters) the construction does not fail
\* and yields one node, at muR0 and of weight 1, whatever shape and binning are,
\* and neither get_bounds nor init_pdf runs
C6_MonoSingleNode ==
    (NR0 = 1 /\ cpc \notin {"new", "held"}
     /\ ~("Nfilt" \in DOMAIN pop_config /\ "Tfilt" \in DOMAIN pop_config)) =>
        /\ cpc # "failed" /\ cpc # "gh"
        /\ consulted = {}
        /\ cpc \in {"nodes", "built"} => (R0 = <<Num(muR0)>> /\ w = <<Num(R(1))>>)
        /\ cpc = "built" => (Len(bubble) = 1 /\ Len(vals) = 1)

\* a single node was built for a shape and a rule no other branch supports, at a
\* muR0 for which get_bounds fails
C6_MonoBuilt ==
    /\ cpc = "built" /\ NR0 = 1
    /\ shape = "uniform" /\ binning = "Trapezoid" /\ muR0 = Rat(1, 2)
    /\ R0 = <<Num(Rat(1, 2))>>

\* C7: a root whose Newton iteration reaches the limit without |z - z1| <= psmall
\* is never stored, and no abscissa or weight is made from it (the construction
\* fails instead)
C7_DivergenceIsFatal ==
    /\ \A k \in 1..Len(gh.roots) : gh.roots[k].ok
    /\ \A k \in 1..Len(R0) : R0[k].ok
    /\ \A k \in 1..Len(w) : w[k].ok

====
